---- MODULE Spec2Model ----
(***************************************************************************)
(* Model of the Dyson cloud integration for Home Assistant:                *)
(*   custom_components/dyson_cloud/__init__.py     (entry setup / unload)  *)
(*   custom_components/dyson_cloud/config_flow.py  (configuration wizard)  *)
(*                                                                         *)
(* Strings built by formatting are modelled as the sequence of their       *)
(* parts (f"global_{email}" is <<"global_", email>>).  What the user types *)
(* as an identifier is a sequence: a mobile number is the sequence of its  *)
(* characters, so that startswith and prefixing are computed; an email,    *)
(* which the code never looks into, is a sequence of one part.  The        *)
(* arguments of a client call are a record keyed by parameter name.  Every *)
(* handler is one action; the account client (libdyson) is the             *)
(* environment: each of its calls returns or raises any exception of       *)
(* Exceptions.                                                             *)
(***************************************************************************)
EXTENDS Integers, Sequences, FiniteSets, TLC

\* ---------------------------------------------------------------- bounds
MaxDevices == 2     \* longest device list the cloud returns
NumTokens  == 1     \* distinct auth payloads a verification may return
MaxMobileLen == 2   \* longest mobile input the normalisation is tried on

Tokens  == 1..NumTokens

\* ------------------------------------------------------- input alphabets
FlowIds      == {1, 2}      \* the flow instances the host starts
Regions      == {"CN", "GB"}
Emails       == {<<"a@x">>, <<"b@x">>}
MobileInputs == {<<"1">>, <<"+", "8", "6", "1">>}
Devices      == {"d1", "d2"}

Exceptions == {"DysonNetworkError", "DysonInvalidAccountStatus",
               "DysonOTPTooFrequently", "DysonLoginFailure",
               "DysonServerError"}
Outcomes   == {"ok"} \cup Exceptions

RECURSIVE SeqsUpTo(_, _)
SeqsUpTo(S, n) ==
    IF n = 0 THEN {<<>>}
    ELSE LET shorter == SeqsUpTo(S, n - 1)
         IN  shorter \cup {Append(s, x) : s \in {t \in shorter : Len(t) = n - 1}, x \in S}

\* The cloud lists each device of the account once.
DeviceLists ==
    {l \in SeqsUpTo(Devices, MaxDevices) :
        \A j, k \in 1..Len(l) : l[j] = l[k] => j = k}

\* ------------------------------------------------------------- constants
PLATFORMS          == <<"camera">>
DYSON_LOCAL_DOMAIN == "dyson_local"
SOURCE_DISCOVERY   == "discovery"

\* Python's None, per field type (strings, sequences, argument records,
\* callables, submitted forms).
None     == "None"
NoSeq    == <<>>
NoArgs   == [none |-> TRUE]
NoVerify == [cls |-> None, fn |-> None, args |-> NoArgs]
NoInfo   == [none |-> TRUE]

VARIABLES
    flows,       \* flow id -> session fields of the flow instance and the host's cur_step
    entries,     \* the host's config entries, in creation order (entry id = index)
    entryState,  \* entry id -> the host's setup state of the entry
    hassData,    \* hass.data[DOMAIN]: entry id -> {account, devices}
    last         \* the most recent handler invocation: calls made, result

vars == <<flows, entries, entryState, hassData, last>>

\* ------------------------------------------------- flow results (host API)
ShowForm(step_id, errors) == [type |-> "form", step_id |-> step_id, errors |-> errors]
CreateEntry(title, data)  == [type |-> "create_entry", title |-> title, data |-> data]
Abort(reason)             == [type |-> "abort", reason |-> reason]
Raised(exc)               == [type |-> "raise", exc |-> exc]

NoErrors      == {}
BaseError(code) == {<<"base", code>>}

\* What a step handler leaves behind: the instance's fields, the value it
\* returned (or the exception that left it) and the account-client calls made.
Ret(self, result, calls) == [self |-> self, result |-> result, calls |-> calls]

\* One call of the account client (or of a callable it returned).
\* `raised` is "ok" and `value` what it returned, or `raised` is the exception.
NoValue == [none |-> TRUE]
SdkCall(fn, callee, args, raised, value) ==
    [fn |-> fn, callee |-> callee, args |-> args, raised |-> raised,
     value |-> IF raised = "ok" THEN value ELSE NoValue]

\* The verification callable login_email_otp / login_mobile_otp returns: it
\* belongs to the client class and to the identifier the login was made for.
Callable(cls, fn, args) == [cls |-> cls, fn |-> fn, args |-> args]

\* The auth payload a verification callable returns: issued by the callable's
\* client for the callable's identifier; tok is the environment's choice.
AuthInfo(verify, tok) == [issuer |-> verify.cls, account |-> verify.args, token |-> tok]

\* DysonAccount() / DysonAccountCN(): a client that holds no auth payload yet
NewAccount(cls) == [cls |-> cls, auth |-> NoValue]

\* DysonCloudConfigFlow.__init__
FlowInit ==
    [step |-> "none", region |-> None, mobile |-> NoSeq, email |-> NoSeq,
     verify |-> NoVerify, unique_id |-> NoSeq]

\* f"{ident} ({region})"
Title(ident, region) == <<ident, " (", region, ")">>

\* f"global_{email}"
UniqueId(email) == <<"global_", email>>

\* ---------------------------------------------------------- OTP-entry steps
\* Mutant: the title is built from the mobile field instead of the email.
async_step_email_otp_title(self, info, out) ==
    IF info # NoInfo
    THEN LET call == SdkCall("verify", self.verify, [otp |-> info.otp, password |-> info.password],
                              out.raised, AuthInfo(self.verify, out.tok))
         IN  IF out.raised = "DysonLoginFailure"
             THEN Ret(self, ShowForm("email_otp", BaseError("invalid_auth")), <<call>>)
             ELSE IF out.raised # "ok"
             THEN Ret(self, Raised(out.raised), <<call>>)
             ELSE Ret(self,
                      CreateEntry(Title(self.mobile, self.region),
                                  [region |-> self.region, auth |-> call.value]),
                      <<call>>)
    ELSE Ret(self, ShowForm("email_otp", NoErrors), <<>>)

\* Mutant: a failed verification discards the pending verification callable.
async_step_email_otp_discard(self, info, out) ==
    IF info # NoInfo
    THEN LET call == SdkCall("verify", self.verify, [otp |-> info.otp, password |-> info.password],
                              out.raised, AuthInfo(self.verify, out.tok))
         IN  IF out.raised = "DysonLoginFailure"
             THEN Ret([self EXCEPT !.verify = NoVerify],
                      ShowForm("email_otp", BaseError("invalid_auth")), <<call>>)
             ELSE IF out.raised # "ok"
             THEN Ret(self, Raised(out.raised), <<call>>)
             ELSE Ret(self,
                      CreateEntry(Title(self.email, self.region),
                                  [region |-> self.region, auth |-> call.value]),
                      <<call>>)
    ELSE Ret(self, ShowForm("email_otp", NoErrors), <<>>)

async_step_email_otp(self, info, out) ==
    IF info # NoInfo
    THEN LET call == SdkCall("verify", self.verify, [otp |-> info.otp, password |-> info.password],
                              out.raised, AuthInfo(self.verify, out.tok))
         IN  IF out.raised = "DysonLoginFailure"
             THEN Ret(self, ShowForm("email_otp", BaseError("invalid_auth")), <<call>>)
             ELSE IF out.raised # "ok"
             THEN Ret(self, Raised(out.raised), <<call>>)
             ELSE Ret(self,
                      CreateEntry(Title(self.email, self.region),
                                  [region |-> self.region, auth |-> call.value]),
                      <<call>>)
    ELSE Ret(self, ShowForm("email_otp", NoErrors), <<>>)

async_step_mobile_otp(self, info, out) ==
    IF info # NoInfo
    THEN LET call == SdkCall("verify", self.verify, [otp |-> info.otp],
                              out.raised, AuthInfo(self.verify, out.tok))
         IN  IF out.raised = "DysonLoginFailure"
             THEN Ret(self, ShowForm("mobile_otp", BaseError("invalid_otp")), <<call>>)
             ELSE IF out.raised # "ok"
             THEN Ret(self, Raised(out.raised), <<call>>)
             ELSE Ret(self,
                      CreateEntry(Title(self.mobile, self.region),
                                  [region |-> self.region, auth |-> call.value]),
                      <<call>>)
    ELSE Ret(self, ShowForm("mobile_otp", NoErrors), <<>>)

\* ----------------------------------------------------- identifier-entry steps
\* self._async_current_entries() scanned for the unique id
AlreadyConfigured(current_entries, unique_id) ==
    \E i \in 1..Len(current_entries) : current_entries[i].unique_id = unique_id

\* self._abort_if_unique_id_configured(), for the unique id just set
abort_if_unique_id_configured(current_entries, unique_id) ==
    \E i \in 1..Len(current_entries) : current_entries[i].unique_id = unique_id

\* Mutant: the login call is made before the uniqueness checks.
async_step_email_login_first(self, info, current_entries, progress, out) ==
    IF info # NoInfo
    THEN LET email     == info.email
             unique_id == UniqueId(email)
             withId    == [self EXCEPT !.unique_id = unique_id]
             verify    == Callable("DysonAccount", "login_email_otp",
                                   [email |-> email, region |-> self.region])
             call      == SdkCall("login_email_otp", NewAccount("DysonAccount"),
                                  [email |-> email, region |-> self.region],
                                  out.raised, verify)
         IN  IF out.raised = "DysonNetworkError"
             THEN Ret(self, ShowForm("email", BaseError("cannot_connect")), <<call>>)
             ELSE IF out.raised = "DysonInvalidAccountStatus"
             THEN Ret(self, ShowForm("email", BaseError("email_not_registered")), <<call>>)
             ELSE IF out.raised # "ok"
             THEN Ret(self, Raised(out.raised), <<call>>)
             ELSE IF AlreadyConfigured(current_entries, unique_id)
             THEN Ret(self, Abort("already_configured"), <<call>>)
             ELSE IF unique_id \in progress
             THEN Ret(self, Abort("already_in_progress"), <<call>>)
             ELSE LET logged == [withId EXCEPT !.verify = call.value, !.email = email]
                      next   == async_step_email_otp(logged, NoInfo, out)
                  IN  Ret(next.self, next.result, <<call>> \o next.calls)
    ELSE Ret(self, ShowForm("email", NoErrors), <<>>)

\* Mutant: the email is stored in the session before the login call.
async_step_email_store_first(self, info, current_entries, progress, out) ==
    IF info # NoInfo
    THEN LET email     == info.email
             unique_id == UniqueId(email)
             withId    == [self EXCEPT !.unique_id = unique_id, !.email = email]
             verify    == Callable("DysonAccount", "login_email_otp",
                                   [email |-> email, region |-> self.region])
             call      == SdkCall("login_email_otp", NewAccount("DysonAccount"),
                                  [email |-> email, region |-> self.region],
                                  out.raised, verify)
         IN  IF AlreadyConfigured(current_entries, unique_id)
             THEN Ret(self, Abort("already_configured"), <<>>)
             ELSE IF unique_id \in progress
             THEN Ret(self, Abort("already_in_progress"), <<>>)
             ELSE IF abort_if_unique_id_configured(current_entries, unique_id)
             THEN Ret(withId, Abort("already_configured"), <<>>)
             ELSE IF out.raised = "DysonNetworkError"
             THEN Ret(withId, ShowForm("email", BaseError("cannot_connect")), <<call>>)
             ELSE IF out.raised = "DysonInvalidAccountStatus"
             THEN Ret(withId, ShowForm("email", BaseError("email_not_registered")), <<call>>)
             ELSE IF out.raised # "ok"
             THEN Ret(withId, Raised(out.raised), <<call>>)
             ELSE LET logged == [withId EXCEPT !.verify = call.value, !.email = email]
                      next   == async_step_email_otp(logged, NoInfo, out)
                  IN  Ret(next.self, next.result, <<call>> \o next.calls)
    ELSE Ret(self, ShowForm("email", NoErrors), <<>>)

\* Mutant: the unique id is set only while the flow has none.
async_step_email_keeps_unique_id(self, info, current_entries, progress, out) ==
    IF info # NoInfo
    THEN LET email     == info.email
             unique_id == UniqueId(email)
             withId    == IF self.unique_id = NoSeq
                          THEN [self EXCEPT !.unique_id = unique_id] ELSE self
             verify    == Callable("DysonAccount", "login_email_otp",
                                   [email |-> email, region |-> self.region])
             call      == SdkCall("login_email_otp", NewAccount("DysonAccount"),
                                  [email |-> email, region |-> self.region],
                                  out.raised, verify)
         IN  IF AlreadyConfigured(current_entries, unique_id)
             THEN Ret(self, Abort("already_configured"), <<>>)
             ELSE IF unique_id \in progress
             THEN Ret(self, Abort("already_in_progress"), <<>>)
             ELSE IF abort_if_unique_id_configured(current_entries, unique_id)
             THEN Ret(withId, Abort("already_configured"), <<>>)
             ELSE IF out.raised = "DysonNetworkError"
             THEN Ret(withId, ShowForm("email", BaseError("cannot_connect")), <<call>>)
             ELSE IF out.raised = "DysonInvalidAccountStatus"
             THEN Ret(withId, ShowForm("email", BaseError("email_not_registered")), <<call>>)
             ELSE IF out.raised # "ok"
             THEN Ret(withId, Raised(out.raised), <<call>>)
             ELSE LET logged == [withId EXCEPT !.verify = call.value, !.email = email]
                      next   == async_step_email_otp(logged, NoInfo, out)
                  IN  Ret(next.self, next.result, <<call>> \o next.calls)
    ELSE Ret(self, ShowForm("email", NoErrors), <<>>)

\* `progress`: the unique ids of the other flows of this handler in progress
\* (async_set_unique_id aborts when one of them has the id asked for).
async_step_email(self, info, current_entries, progress, out) ==
    IF info # NoInfo
    THEN LET email     == info.email
             unique_id == UniqueId(email)
             withId    == [self EXCEPT !.unique_id = unique_id]
             verify    == Callable("DysonAccount", "login_email_otp",
                                   [email |-> email, region |-> self.region])
             call      == SdkCall("login_email_otp", NewAccount("DysonAccount"),
                                  [email |-> email, region |-> self.region],
                                  out.raised, verify)
         IN  IF AlreadyConfigured(current_entries, unique_id)
             THEN Ret(self, Abort("already_configured"), <<>>)
             ELSE IF unique_id \in progress
             THEN Ret(self, Abort("already_in_progress"), <<>>)
             ELSE IF abort_if_unique_id_configured(current_entries, unique_id)
             THEN Ret(withId, Abort("already_configured"), <<>>)
             ELSE IF out.raised = "DysonNetworkError"
             THEN Ret(withId, ShowForm("email", BaseError("cannot_connect")), <<call>>)
             ELSE IF out.raised = "DysonInvalidAccountStatus"
             THEN Ret(withId, ShowForm("email", BaseError("email_not_registered")), <<call>>)
             ELSE IF out.raised # "ok"
             THEN Ret(withId, Raised(out.raised), <<call>>)
             ELSE LET logged == [withId EXCEPT !.verify = call.value, !.email = email]
                      next   == async_step_email_otp(logged, NoInfo, out)
                  IN  Ret(next.self, next.result, <<call>> \o next.calls)
    ELSE Ret(self, ShowForm("email", NoErrors), <<>>)

\* Mutant: the country code is prefixed whatever the input starts with.
NormalizeMobile_always_prefix(mobile) ==
    <<"+", "8", "6">> \o mobile

\* mobile if it starts with "+", else f"+86{mobile}"
NormalizeMobile(mobile) ==
    IF Len(mobile) > 0 /\ mobile[1] = "+" THEN mobile ELSE <<"+", "8", "6">> \o mobile

\* Mutant: a successful mobile login continues with the email OTP step.
async_step_mobile_to_email_otp(self, info, out) ==
    IF info # NoInfo
    THEN LET mobile == NormalizeMobile(info.mobile)
             verify == Callable("DysonAccountCN", "login_mobile_otp", [mobile |-> mobile])
             call   == SdkCall("login_mobile_otp", NewAccount("DysonAccountCN"),
                               [mobile |-> mobile],
                               out.raised, verify)
         IN  IF out.raised = "DysonOTPTooFrequently"
             THEN Ret(self, ShowForm("mobile", BaseError("otp_too_frequent")), <<call>>)
             ELSE IF out.raised # "ok"
             THEN Ret(self, Raised(out.raised), <<call>>)
             ELSE LET logged == [self EXCEPT !.verify = call.value, !.mobile = mobile]
                      next   == async_step_email_otp(logged, NoInfo, out)
                  IN  Ret(next.self, next.result, <<call>> \o next.calls)
    ELSE Ret(self, ShowForm("mobile", NoErrors), <<>>)

\* Mutant: DysonOTPTooFrequently is not caught.
async_step_mobile_uncaught(self, info, out) ==
    IF info # NoInfo
    THEN LET mobile == NormalizeMobile(info.mobile)
             verify == Callable("DysonAccountCN", "login_mobile_otp", [mobile |-> mobile])
             call   == SdkCall("login_mobile_otp", NewAccount("DysonAccountCN"),
                               [mobile |-> mobile],
                               out.raised, verify)
         IN  IF out.raised # "ok"
             THEN Ret(self, Raised(out.raised), <<call>>)
             ELSE LET logged == [self EXCEPT !.verify = call.value, !.mobile = mobile]
                      next   == async_step_mobile_otp(logged, NoInfo, out)
                  IN  Ret(next.self, next.result, <<call>> \o next.calls)
    ELSE Ret(self, ShowForm("mobile", NoErrors), <<>>)

async_step_mobile(self, info, out) ==
    IF info # NoInfo
    THEN LET mobile == NormalizeMobile(info.mobile)
             verify == Callable("DysonAccountCN", "login_mobile_otp", [mobile |-> mobile])
             call   == SdkCall("login_mobile_otp", NewAccount("DysonAccountCN"),
                               [mobile |-> mobile],
                               out.raised, verify)
         IN  IF out.raised = "DysonOTPTooFrequently"
             THEN Ret(self, ShowForm("mobile", BaseError("otp_too_frequent")), <<call>>)
             ELSE IF out.raised # "ok"
             THEN Ret(self, Raised(out.raised), <<call>>)
             ELSE LET logged == [self EXCEPT !.verify = call.value, !.mobile = mobile]
                      next   == async_step_mobile_otp(logged, NoInfo, out)
                  IN  Ret(next.self, next.result, <<call>> \o next.calls)
    ELSE Ret(self, ShowForm("mobile", NoErrors), <<>>)

\* --------------------------------------------------------------- user step
\* Mutant: the region test is inverted.
async_step_user_inverted(self, user_input, current_entries, progress, out) ==
    IF user_input # NoInfo
    THEN LET chosen == [self EXCEPT !.region = user_input.region]
         IN  IF chosen.region # "CN"
             THEN async_step_mobile(chosen, NoInfo, out)
             ELSE async_step_email(chosen, NoInfo, current_entries, progress, out)
    ELSE Ret(self, ShowForm("user", NoErrors), <<>>)

async_step_user(self, user_input, current_entries, progress, out) ==
    IF user_input # NoInfo
    THEN LET chosen == [self EXCEPT !.region = user_input.region]
         IN  IF chosen.region = "CN"
             THEN async_step_mobile(chosen, NoInfo, out)
             ELSE async_step_email(chosen, NoInfo, current_entries, progress, out)
    ELSE Ret(self, ShowForm("user", NoErrors), <<>>)

\* ------------------------------------------------------------ entry setup
\* hass.config_entries.flow.async_init(DYSON_LOCAL_DOMAIN, context=..., data=device)
DiscoveryInit(device) ==
    [domain |-> DYSON_LOCAL_DOMAIN, source |-> SOURCE_DISCOVERY, data |-> device]

\* Mutant: the loop stops before the last device.
RECURSIVE DiscoveryInits_skip_last(_)
DiscoveryInits_skip_last(devices) ==
    IF Len(devices) <= 1 THEN <<>>
    ELSE <<DiscoveryInit(Head(devices))>> \o DiscoveryInits_skip_last(Tail(devices))

\* for device in devices: hass.async_create_task(...async_init(...))
RECURSIVE DiscoveryInits(_)
DiscoveryInits(devices) ==
    IF devices = <<>> THEN <<>>
    ELSE <<DiscoveryInit(Head(devices))>> \o DiscoveryInits(Tail(devices))

\* DysonAccountCN(auth) if the entry's region is "CN", else DysonAccount(auth)
AccountFor(entry) ==
    IF entry.data.region = "CN"
    THEN [cls |-> "DysonAccountCN", auth |-> entry.data.auth]
    ELSE [cls |-> "DysonAccount", auth |-> entry.data.auth]

\* Mutant: a network error is not turned into the not-ready signal.
async_setup_entry_no_not_ready(entry, out) ==
    LET account == AccountFor(entry)
        call    == SdkCall("devices", account, NoArgs, out.raised, [devices |-> out.devices])
    IN  IF out.raised # "ok"
        THEN [calls |-> <<call>>, result |-> Raised(out.raised),
              inits |-> <<>>, write |-> <<>>, forwarded |-> <<>>]
        ELSE [calls |-> <<call>>, result |-> [type |-> "return", value |-> TRUE],
              inits |-> DiscoveryInits(out.devices),
              write |-> <<[account |-> account, devices |-> out.devices]>>,
              forwarded |-> PLATFORMS]

\* Mutant: the registry record is written before the listing call.
async_setup_entry_write_first(entry, out) ==
    LET account == AccountFor(entry)
        call    == SdkCall("devices", account, NoArgs, out.raised, [devices |-> out.devices])
    IN  IF out.raised = "DysonNetworkError"
        THEN [calls |-> <<call>>, result |-> Raised("ConfigEntryNotReady"),
              inits |-> <<>>,
              write |-> <<[account |-> account, devices |-> <<>>]>>,
              forwarded |-> <<>>]
        ELSE IF out.raised # "ok"
        THEN [calls |-> <<call>>, result |-> Raised(out.raised),
              inits |-> <<>>,
              write |-> <<[account |-> account, devices |-> <<>>]>>,
              forwarded |-> <<>>]
        ELSE [calls |-> <<call>>, result |-> [type |-> "return", value |-> TRUE],
              inits |-> DiscoveryInits(out.devices),
              write |-> <<[account |-> account, devices |-> out.devices]>>,
              forwarded |-> PLATFORMS]

\* Mutant: every exception of the listing call becomes the not-ready signal.
async_setup_entry_any_not_ready(entry, out) ==
    LET account == AccountFor(entry)
        call    == SdkCall("devices", account, NoArgs, out.raised, [devices |-> out.devices])
    IN  IF out.raised # "ok"
        THEN [calls |-> <<call>>, result |-> Raised("ConfigEntryNotReady"),
              inits |-> <<>>, write |-> <<>>, forwarded |-> <<>>]
        ELSE [calls |-> <<call>>, result |-> [type |-> "return", value |-> TRUE],
              inits |-> DiscoveryInits(out.devices),
              write |-> <<[account |-> account, devices |-> out.devices]>>,
              forwarded |-> PLATFORMS]

\* What one run of async_setup_entry does: the listing call, the value
\* returned or the exception raised, the discovery flows requested, the
\* registry record written (if any) and the platforms forwarded.
async_setup_entry(entry, out) ==
    LET account == AccountFor(entry)
        call    == SdkCall("devices", account, NoArgs, out.raised, [devices |-> out.devices])
    IN  IF out.raised = "DysonNetworkError"
        THEN [calls |-> <<call>>, result |-> Raised("ConfigEntryNotReady"),
              inits |-> <<>>, write |-> <<>>, forwarded |-> <<>>]
        ELSE IF out.raised # "ok"
        THEN [calls |-> <<call>>, result |-> Raised(out.raised),
              inits |-> <<>>, write |-> <<>>, forwarded |-> <<>>]
        ELSE [calls |-> <<call>>, result |-> [type |-> "return", value |-> TRUE],
              inits |-> DiscoveryInits(out.devices),
              write |-> <<[account |-> account, devices |-> out.devices]>>,
              forwarded |-> PLATFORMS]

\* Mutant: unloading empties the entry's device list in the registry.
async_unload_entry_clears(entry) ==
    [calls |-> <<>>, result |-> [type |-> "return", value |-> TRUE],
     inits |-> <<>>,
     write |-> <<[account |-> AccountFor(entry), devices |-> <<>>]>>,
     forwarded |-> <<>>]

\* async_unload_entry: nothing is cleaned up.
async_unload_entry(entry) ==
    [calls |-> <<>>, result |-> [type |-> "return", value |-> TRUE],
     inits |-> <<>>, write |-> <<>>, forwarded |-> <<>>]

\* ------------------------------------------------------------------- host
ActiveSteps   == {"user", "email", "mobile", "email_otp", "mobile_otp"}
TerminalSteps == {"create_entry", "abort"}

\* The unique ids of the flows in progress other than f.
InProgress(f) ==
    {flows[g].unique_id : g \in {h \in FlowIds \ {f} : flows[h].step \in ActiveSteps}} \ {NoSeq}

\* Mutant: a flow that ended stays at the step it ended from.
NextStep_stays(step, result) ==
    IF result.type = "form" THEN result.step_id ELSE step

\* The flow manager's cur_step after a step handler ended with `result`.
NextStep(step, result) ==
    IF result.type = "form" THEN result.step_id
    ELSE IF result.type = "raise" THEN step
    ELSE result.type

\* The entry the flow manager adds for a create_entry result of flow f.
NewEntry(f, r) ==
    [entry_id |-> Len(entries) + 1, unique_id |-> r.self.unique_id,
     title |-> r.result.title, data |-> r.result.data, flow |-> f]

\* Mutant: the region is an attribute of the class, shared by the instances.
FlowResult_shared(f, op, input, r) ==
    /\ flows' = [g \in FlowIds |->
                    IF g = f
                    THEN [r.self EXCEPT !.step = NextStep(flows[f].step, r.result)]
                    ELSE [flows[g] EXCEPT !.region = r.self.region]]
    /\ entries' = IF r.result.type = "create_entry"
                  THEN Append(entries, NewEntry(f, r)) ELSE entries
    /\ entryState' = IF r.result.type = "create_entry"
                     THEN Append(entryState, "not_loaded") ELSE entryState
    /\ last' = [op |-> op, id |-> f, input |-> input, calls |-> r.calls,
                result |-> r.result, inits |-> <<>>, forwarded |-> <<>>]
    /\ UNCHANGED hassData

\* The flow manager takes the outcome r of a step handler of flow f.
FlowResult(f, op, input, r) ==
    /\ flows' = [flows EXCEPT ![f] = [r.self EXCEPT !.step = NextStep(flows[f].step, r.result)]]
    /\ entries' = IF r.result.type = "create_entry"
                  THEN Append(entries, NewEntry(f, r)) ELSE entries
    /\ entryState' = IF r.result.type = "create_entry"
                     THEN Append(entryState, "not_loaded") ELSE entryState
    /\ last' = [op |-> op, id |-> f, input |-> input, calls |-> r.calls,
                result |-> r.result, inits |-> <<>>, forwarded |-> <<>>]
    /\ UNCHANGED hassData

NoOut == [raised |-> "ok", tok |-> 1]

\* The host starts a flow: a new instance, then async_step_user(None).
FlowStart(f) ==
    /\ flows[f].step = "none"
    /\ FlowResult(f, "init", NoInfo,
                  async_step_user(FlowInit, NoInfo, entries, InProgress(f), NoOut))

SubmitUser(f) ==
    /\ flows[f].step = "user"
    /\ \E region \in Regions :
         LET user_input == [region |-> region]
         IN  FlowResult(f, "user", user_input,
                        async_step_user(flows[f], user_input, entries, InProgress(f), NoOut))

SubmitEmail(f) ==
    /\ flows[f].step = "email"
    /\ \E email \in Emails, raised \in Outcomes :
         LET info == [email |-> email]
         IN  FlowResult(f, "email", info,
                        async_step_email(flows[f], info, entries, InProgress(f),
                                         [raised |-> raised, tok |-> 1]))

SubmitEmailOtp(f) ==
    /\ flows[f].step = "email_otp"
    /\ \E raised \in Outcomes, tok \in Tokens :
         LET info == [otp |-> "otp", password |-> "pw"]
         IN  FlowResult(f, "email_otp", info,
                        async_step_email_otp(flows[f], info, [raised |-> raised, tok |-> tok]))

SubmitMobile(f) ==
    /\ flows[f].step = "mobile"
    /\ \E mobile \in MobileInputs, raised \in Outcomes :
         LET info == [mobile |-> mobile]
         IN  FlowResult(f, "mobile", info,
                        async_step_mobile(flows[f], info, [raised |-> raised, tok |-> 1]))

SubmitMobileOtp(f) ==
    /\ flows[f].step = "mobile_otp"
    /\ \E raised \in Outcomes, tok \in Tokens :
         LET info == [otp |-> "otp"]
         IN  FlowResult(f, "mobile_otp", info,
                        async_step_mobile_otp(flows[f], info, [raised |-> raised, tok |-> tok]))

\* The host's state of an entry after a setup run ended with `result`.
StateAfterSetup(result) ==
    IF result.type = "return" THEN "loaded"
    ELSE IF result.exc = "ConfigEntryNotReady" THEN "setup_retry"
    ELSE "setup_error"

\* Mutant: a record already in the registry is kept (setdefault).
Written_keeps_first(data, i, write) ==
    IF write = <<>> \/ i \in DOMAIN data THEN data
    ELSE [j \in DOMAIN data \cup {i} |-> IF j = i THEN write[1] ELSE data[j]]

\* hass.data[DOMAIN][entry_id] = record, for every record of `write`
Written(data, i, write) ==
    IF write = <<>> THEN data
    ELSE [j \in DOMAIN data \cup {i} |-> IF j = i THEN write[1] ELSE data[j]]

\* The host sets entry i up (first setup, or the retry after not-ready).
SetupEntry(i, raised, devices) ==
    /\ i \in 1..Len(entries)
    /\ entryState[i] \in {"not_loaded", "setup_retry"}
    /\ LET r == async_setup_entry(entries[i], [raised |-> raised, devices |-> devices])
       IN  /\ entryState' = [entryState EXCEPT ![i] = StateAfterSetup(r.result)]
           /\ hassData' = Written(hassData, i, r.write)
           /\ last' = [op |-> "async_setup_entry", id |-> i,
                       input |-> [devices |-> devices],
                       calls |-> r.calls, result |-> r.result,
                       inits |-> r.inits, forwarded |-> r.forwarded]
    /\ UNCHANGED <<flows, entries>>

SetupOk(i)   == \E devices \in DeviceLists : SetupEntry(i, "ok", devices)
SetupFail(i) == \E raised \in Exceptions : SetupEntry(i, raised, <<>>)

\* The host unloads a loaded entry.
UnloadEntry(i) ==
    /\ i \in 1..Len(entries)
    /\ entryState[i] = "loaded"
    /\ LET r == async_unload_entry(entries[i])
       IN  /\ entryState' = [entryState EXCEPT ![i] = "not_loaded"]
           /\ hassData' = Written(hassData, i, r.write)
           /\ last' = [op |-> "async_unload_entry", id |-> i, input |-> NoInfo,
                       calls |-> r.calls, result |-> r.result,
                       inits |-> r.inits, forwarded |-> r.forwarded]
    /\ UNCHANGED <<flows, entries>>

\* async_setup has run (hass.data[DOMAIN] = {}); no flow started, no entry.
Init ==
    /\ flows = [f \in FlowIds |-> FlowInit]
    /\ entries = <<>>
    /\ entryState = <<>>
    /\ hassData = <<>>
    /\ last = [op |-> "async_setup", id |-> 0, input |-> NoInfo, calls |-> <<>>,
               result |-> [type |-> "return", value |-> TRUE],
               inits |-> <<>>, forwarded |-> <<>>]

\* Each flow creates at most one entry.
EntryIds == 1..Cardinality(FlowIds)

Next ==
    \/ \E f \in FlowIds : FlowStart(f)
    \/ \E f \in FlowIds : SubmitUser(f)
    \/ \E f \in FlowIds : SubmitEmail(f)
    \/ \E f \in FlowIds : SubmitEmailOtp(f)
    \/ \E f \in FlowIds : SubmitMobile(f)
    \/ \E f \in FlowIds : SubmitMobileOtp(f)
    \/ \E i \in EntryIds : SetupOk(i)
    \/ \E i \in EntryIds : SetupFail(i)
    \/ \E i \in EntryIds : UnloadEntry(i)

Spec == Init /\ [][Next]_vars

\* The host retries a not-ready entry, and the listing call eventually succeeds.
FairSpec == Spec /\ \A i \in EntryIds : SF_vars(SetupOk(i))

\* ================================================================ claims
\* The entries that exist for the email / for the normalised mobile number.
EntriesForEmail(email) ==
    {i \in 1..Len(entries) : entries[i].data.region # "CN" /\ entries[i].title[1] = email}
EntriesForMobile(mobile) ==
    {i \in 1..Len(entries) : entries[i].data.region = "CN" /\ entries[i].title[1] = mobile}

\* C1: a region submitted at the user step is stored in the session, and the
\* flow shows the mobile form if the region is "CN" and the email form
\* otherwise; no account-client call is made.
C1_RegionRouting ==
    last.op = "user" =>
        LET f == last.id
            region == last.input.region
        IN  /\ flows[f].region = region
            /\ last.calls = <<>>
            /\ region = "CN" => /\ last.result = ShowForm("mobile", NoErrors)
                                /\ flows[f].step = "mobile"
            /\ region # "CN" => /\ last.result = ShowForm("email", NoErrors)
                                /\ flows[f].step = "email"

\* One flow was routed to the mobile step and another to the email step.
C1_Witness ==
    /\ last.op = "user"
    /\ \E f, g \in FlowIds :
         /\ flows[f].step = "mobile" /\ flows[f].region = "CN"
         /\ flows[g].step = "email" /\ flows[g].region = "GB"

\* C2: an email submission whose unique id global_<email> belongs to an
\* existing entry ends in abort(already_configured), and no account-client
\* call (login_email_otp) is made for it; the flow is not at email_otp.
C2_DuplicateEmailAborts ==
    (last.op = "email" /\ AlreadyConfigured(entries, UniqueId(last.input.email))) =>
        /\ last.result = Abort("already_configured")
        /\ last.calls = <<>>
        /\ flows[last.id].step = "abort"

\* An email submission met an entry with its unique id.
C2_Witness ==
    /\ last.op = "email"
    /\ AlreadyConfigured(entries, UniqueId(last.input.email))
    /\ last.result.type = "abort"

\* C3: on both branches, an identifier submission for which an entry already
\* exists does not take the flow to the OTP step, and no two entries exist
\* for one identifier.
C3_DuplicateIdentifierRejected ==
    /\ (last.op = "email" /\ EntriesForEmail(last.input.email) # {})
           => flows[last.id].step # "email_otp"
    /\ (last.op = "mobile" /\ EntriesForMobile(NormalizeMobile(last.input.mobile)) # {})
           => flows[last.id].step # "mobile_otp"
    /\ \A i, j \in 1..Len(entries) :
           (i # j /\ entries[i].data.region = entries[j].data.region)
               => entries[i].title[1] # entries[j].title[1]

\* The outcome of the listing call of the most recent setup run of entry i.
ListingRaised(i) ==
    IF last.op = "async_setup_entry" /\ last.id = i THEN last.calls[1].raised ELSE "none"

\* C4: a DysonNetworkError from the listing call ends the setup run with
\* ConfigEntryNotReady and leaves the entry to be retried; with the host
\* retrying and the listing call eventually succeeding, the entry is then
\* eventually set up, unless a later listing call fails in another way.
C4_NetworkErrorIsRetried ==
    /\ [](\A i \in EntryIds :
            ListingRaised(i) = "DysonNetworkError" =>
                /\ last.result = Raised("ConfigEntryNotReady")
                /\ entryState[i] = "setup_retry")
    /\ \A i \in EntryIds :
          (ListingRaised(i) = "DysonNetworkError")
              ~> (\/ (ListingRaised(i) = "ok" /\ last.result.type = "return"
                         /\ last.result.value = TRUE /\ entryState[i] = "loaded")
                  \/ ListingRaised(i) \notin {"none", "ok", "DysonNetworkError"})

\* A setup run has just ended not-ready after a network error.
C4_Witness ==
    \E i \in 1..Len(entries) :
        /\ ListingRaised(i) = "DysonNetworkError"
        /\ entryState[i] = "setup_retry"

\* The number of elements of seq that satisfy having data d / being d.
InitsFor(d)   == Cardinality({k \in 1..Len(last.inits) : last.inits[k].data = d})
DevicesOf(d)  == Cardinality({k \in 1..Len(last.input.devices) : last.input.devices[k] = d})

\* C5: a successful setup run requests as many discovery flows as the cloud
\* returned devices, one per device and carrying its descriptor (as many
\* requests for a descriptor as the list has occurrences of it).
C5_OneDiscoveryPerDevice ==
    (last.op = "async_setup_entry" /\ last.result.type = "return") =>
        /\ Len(last.inits) = Len(last.input.devices)
        /\ \A d \in Devices : InitsFor(d) = DevicesOf(d)
        /\ \A k \in 1..Len(last.inits) :
               /\ last.inits[k].domain = "dyson_local"
               /\ last.inits[k].source = "discovery"

\* A successful setup run for a list of two distinct devices.
C5_Witness ==
    /\ last.op = "async_setup_entry" /\ last.result.type = "return"
    /\ Len(last.input.devices) = 2 /\ last.input.devices[1] # last.input.devices[2]
    /\ Len(last.inits) = 2

\* C6: when the verification callable of the email flow returns auth data a,
\* the step ends with create_entry: data {region, auth: a} and title
\* "<email> (<region>)", for the session's region and email, which are the
\* ones the login call was made with; the host adds that entry.
C6_EmailEntry ==
    (last.op = "email_otp" /\ last.calls[1].raised = "ok") =>
        LET f == last.id
            a == last.calls[1].value
        IN  /\ last.result.type = "create_entry"
            /\ last.result.data = [region |-> flows[f].region, auth |-> a]
            /\ last.result.title = <<flows[f].email, " (", flows[f].region, ")">>
            /\ a.account = [email |-> flows[f].email, region |-> flows[f].region]
            /\ flows[f].region \in Regions \ {"CN"}
            /\ flows[f].email \in Emails
            /\ entries[Len(entries)].title = last.result.title
            /\ entries[Len(entries)].data = last.result.data

\* An email flow has just created its entry.
C6_Witness ==
    /\ last.op = "email_otp" /\ last.calls[1].raised = "ok"
    /\ entries # <<>> /\ entries[Len(entries)].flow = last.id

\* The entries a flow created; a step of flow f.
EntriesOfFlow(f) == {i \in 1..Len(entries) : entries[i].flow = f}
FlowAction(f) ==
    \/ FlowStart(f) \/ SubmitUser(f) \/ SubmitEmail(f) \/ SubmitEmailOtp(f)
    \/ SubmitMobile(f) \/ SubmitMobileOtp(f)

\* C7: a flow creates at most one entry (one exactly when it ended with
\* create_entry), and after create_entry or abort the flow takes no step:
\* its session is unchanged and no handler of it runs (so no login or
\* verification call is made for it).
C7_AtMostOneEntry ==
    /\ [](\A f \in FlowIds :
            /\ Cardinality(EntriesOfFlow(f)) <= 1
            /\ (flows[f].step = "create_entry") <=> (EntriesOfFlow(f) # {}))
    /\ [][\A f \in FlowIds :
            flows[f].step \in TerminalSteps =>
                /\ flows'[f] = flows[f]
                /\ EntriesOfFlow(f)' = EntriesOfFlow(f)
                /\ ~FlowAction(f)]_vars

\* One flow ended with create_entry, another with abort, and the host went on.
C7_Witness ==
    /\ \E f, g \in FlowIds : flows[f].step = "create_entry" /\ flows[g].step = "abort"
    /\ last.op = "async_setup_entry"

\* C8: a DysonNetworkError or DysonInvalidAccountStatus from the login call
\* of the email or the mobile step redisplays that step with an error code.
C8_LoginFailureIsFormError ==
    (/\ last.op \in {"email", "mobile"}
     /\ last.calls # <<>>
     /\ last.calls[1].raised \in {"DysonNetworkError", "DysonInvalidAccountStatus"}) =>
        /\ last.result.type = "form"
        /\ last.result.step_id = last.op
        /\ last.result.errors # NoErrors
        /\ flows[last.id].step = last.op

\* C9: DysonOTPTooFrequently from login_mobile_otp redisplays the mobile
\* form with base error otp_too_frequent; the flow stays on the mobile step.
C9_OtpTooFrequent ==
    (last.op = "mobile" /\ last.calls # <<>>
        /\ last.calls[1].raised = "DysonOTPTooFrequently") =>
        /\ last.calls[1].fn = "login_mobile_otp"
        /\ last.result = ShowForm("mobile", {<<"base", "otp_too_frequent">>})
        /\ flows[last.id].step = "mobile"

\* login_mobile_otp has just raised DysonOTPTooFrequently.
C9_Witness ==
    /\ last.op = "mobile" /\ last.calls # <<>>
    /\ last.calls[1].raised = "DysonOTPTooFrequently"
    /\ last.result.type = "form"

\* The verification of the step just taken raised DysonLoginFailure.
VerifyFailed(f, op) ==
    /\ last'.op = op /\ last'.id = f
    /\ last'.calls[1].fn = "verify" /\ last'.calls[1].raised = "DysonLoginFailure"

\* C10: when the verification callable raises DysonLoginFailure, the OTP
\* step is redisplayed with invalid_auth (email) or invalid_otp (mobile), no
\* entry is created, and the session (region, identifier, callable, step) is
\* as before, so the flow can take the same step again with a valid code.
C10_InvalidOtpKeepsSession ==
    [][\A f \in FlowIds :
         /\ (SubmitEmailOtp(f) /\ VerifyFailed(f, "email_otp")) =>
                /\ last'.result = ShowForm("email_otp", {<<"base", "invalid_auth">>})
                /\ flows' = flows /\ entries' = entries
                /\ flows'[f].step = "email_otp" /\ flows'[f].verify # NoVerify
         /\ (SubmitMobileOtp(f) /\ VerifyFailed(f, "mobile_otp")) =>
                /\ last'.result = ShowForm("mobile_otp", {<<"base", "invalid_otp">>})
                /\ flows' = flows /\ entries' = entries
                /\ flows'[f].step = "mobile_otp" /\ flows'[f].verify # NoVerify
      ]_vars

\* A verification has just failed with DysonLoginFailure in one flow while
\* another flow created its entry.
C10_Witness ==
    /\ last.op \in {"email_otp", "mobile_otp"}
    /\ last.calls[1].raised = "DysonLoginFailure"
    /\ last.result.type = "form"
    /\ entries # <<>>

\* C11: after a successful setup run of entry i the registry maps i to the
\* account client built from the entry (DysonAccountCN exactly when the
\* entry's region is "CN", DysonAccount otherwise, holding the entry's auth
\* payload) and to the device list the cloud returned in this run.
C11_RegistryAfterSetup ==
    (last.op = "async_setup_entry" /\ last.result.type = "return") =>
        LET i == last.id
        IN  /\ i \in DOMAIN hassData
            /\ hassData[i].devices = last.calls[1].value.devices
            /\ hassData[i].account = last.calls[1].callee
            /\ hassData[i].account.auth = entries[i].data.auth
            /\ (hassData[i].account.cls = "DysonAccountCN") <=> (entries[i].data.region = "CN")
            /\ (hassData[i].account.cls = "DysonAccount") <=> (entries[i].data.region # "CN")
            /\ entryState[i] = "loaded"

\* A successful setup run of a CN entry returned a device list while the
\* registry holds a record for another entry as well.
C11_Witness ==
    /\ last.op = "async_setup_entry" /\ last.result.type = "return"
    /\ entries[last.id].data.region = "CN"
    /\ last.calls[1].value.devices # <<>>
    /\ Cardinality(DOMAIN hassData) = 2

\* The exceptions a handler maps to a result of its own.
MappedExceptions(op) ==
    IF op = "async_setup_entry" THEN {"DysonNetworkError"}
    ELSE IF op = "email" THEN {"DysonNetworkError", "DysonInvalidAccountStatus"}
    ELSE IF op = "mobile" THEN {"DysonOTPTooFrequently"}
    ELSE IF op \in {"email_otp", "mobile_otp"} THEN {"DysonLoginFailure"}
    ELSE {}

\* The handler run recorded in h met an exception it does not map.
UnmappedRaise(h) ==
    /\ h.calls # <<>>
    /\ h.calls[Len(h.calls)].raised \notin {"ok"} \cup MappedExceptions(h.op)

\* C12: an exception of the account client that the handler does not map
\* leaves the handler as that exception: the result is neither the not-ready
\* signal nor a form, no entry is created, no registry record is written, and
\* the flow stays at its step (the entry's setup has failed).
C12_UnmappedExceptionPropagates ==
    [][UnmappedRaise(last') =>
          /\ last'.result = Raised(last'.calls[Len(last'.calls)].raised)
          /\ last'.result.exc # "ConfigEntryNotReady"
          /\ entries' = entries
          /\ hassData' = hassData
          /\ last'.inits = <<>> /\ last'.forwarded = <<>>
          /\ last'.op = "async_setup_entry" => entryState'[last'.id] = "setup_error"
          /\ last'.op # "async_setup_entry" =>
                 /\ flows'[last'.id].step = flows[last'.id].step
                 /\ entryState' = entryState
      ]_vars

\* A listing call has just raised an exception other than DysonNetworkError
\* and the entry's setup has failed.
C12_Witness ==
    /\ last.op = "async_setup_entry" /\ UnmappedRaise(last)
    /\ entryState[last.id] = "setup_error"

\* The identifier a session holds: its email, or its mobile number.
SessionIdent(f) == IF flows[f].region = "CN" THEN flows[f].mobile ELSE flows[f].email

\* C13: a step of one flow instance leaves the session fields (and the
\* step) of every other instance unchanged, and every entry carries the
\* region, the identifier and the auth payload (the one issued by the
\* verification callable) of the session of the flow that created it.
C13_SessionsIndependent ==
    /\ [][\A f \in FlowIds : FlowAction(f) =>
            \A g \in FlowIds \ {f} : flows'[g] = flows[g]]_vars
    /\ [](\A i \in 1..Len(entries) :
            LET f == entries[i].flow
            IN  /\ entries[i].data.region = flows[f].region
                /\ entries[i].data.auth.issuer = flows[f].verify.cls
                /\ entries[i].data.auth.account = flows[f].verify.args
                /\ entries[i].title = <<SessionIdent(f), " (", flows[f].region, ")">>)

\* One flow has just created its entry while the other, of the other
\* branch, waits at its OTP step with its own callable.
C13_Witness ==
    /\ last.op = "email_otp" /\ last.result.type = "create_entry"
    /\ \E g \in FlowIds \ {last.id} :
         /\ flows[g].step = "mobile_otp"
         /\ flows[g].verify # NoVerify
         /\ flows[g].region # flows[last.id].region

\* The transitions of the wizard: from a step to the steps that may follow.
StepGraph ==
    {<<"none", "user">>,
     <<"user", "email">>, <<"user", "mobile">>,
     <<"email", "email">>, <<"email", "email_otp">>, <<"email", "abort">>,
     <<"mobile", "mobile">>, <<"mobile", "mobile_otp">>,
     <<"email_otp", "email_otp">>, <<"email_otp", "create_entry">>,
     <<"mobile_otp", "mobile_otp">>, <<"mobile_otp", "create_entry">>}

\* C14: every step of a flow follows the transition graph user -> email or
\* mobile; email -> email, email_otp or abort; mobile -> mobile or
\* mobile_otp; email_otp -> email_otp or create_entry; mobile_otp ->
\* mobile_otp or create_entry.  So no flow crosses between the branches and
\* an OTP step is entered only from its identifier step.
C14_TransitionGraph ==
    [][\A f \in FlowIds :
          flows'[f].step # flows[f].step => <<flows[f].step, flows'[f].step>> \in StepGraph]_vars

\* The email branch has been walked to both of its ends: one flow created
\* its entry from email_otp, the other was aborted at the email step.
C14_Witness ==
    \E f, g \in FlowIds :
        /\ flows[f].step = "create_entry" /\ flows[f].region # "CN"
        /\ flows[g].step = "abort" /\ flows[g].region # "CN"

\* C15: async_unload_entry returns True and leaves the registry as it is:
\* entry i is still mapped to the account client and the device list of its
\* last successful setup; no client call is made and no discovery flow is
\* requested.
C15_UnloadKeepsRegistry ==
    [][\A i \in EntryIds : UnloadEntry(i) =>
          /\ last'.result = [type |-> "return", value |-> TRUE]
          /\ hassData' = hassData
          /\ i \in DOMAIN hassData'
          /\ hassData'[i].account.auth = entries[i].data.auth
          /\ last'.calls = <<>> /\ last'.inits = <<>> /\ last'.forwarded = <<>>
          /\ entries' = entries /\ flows' = flows
      ]_vars

\* An entry whose registry record lists devices has just been unloaded.
C15_Witness ==
    /\ last.op = "async_unload_entry"
    /\ last.id \in DOMAIN hassData
    /\ hassData[last.id].devices # <<>>

\* C16: a flow at email_otp holds the callable login_email_otp returned for
\* the email and region stored in its session, and its unique id is
\* global_<that email>; a flow at mobile_otp holds the callable
\* login_mobile_otp returned for the stored mobile number.  The callable is
\* the value of the successful login call that took the flow to the OTP
\* step, whatever identifiers failed before.
C16_OtpStepHoldsCurrentCallable ==
    \A f \in FlowIds :
        /\ flows[f].step = "email_otp" =>
              /\ flows[f].email \in Emails
              /\ flows[f].verify # NoVerify
              /\ flows[f].verify.cls = "DysonAccount"
              /\ flows[f].verify.fn = "login_email_otp"
              /\ flows[f].verify.args = [email |-> flows[f].email, region |-> flows[f].region]
              /\ flows[f].unique_id = <<"global_", flows[f].email>>
        /\ flows[f].step = "mobile_otp" =>
              /\ flows[f].mobile # NoSeq
              /\ flows[f].verify # NoVerify
              /\ flows[f].verify.cls = "DysonAccountCN"
              /\ flows[f].verify.fn = "login_mobile_otp"
              /\ flows[f].verify.args = [mobile |-> flows[f].mobile]
        /\ (last.id = f /\ last.op \in {"email", "mobile"}
                /\ flows[f].step \in {"email_otp", "mobile_otp"}) =>
              /\ last.calls[1].raised = "ok"
              /\ flows[f].verify = last.calls[1].value
              /\ last.calls[1].args = flows[f].verify.args

\* A successful login has just taken a flow to email_otp with the second
\* email, while the other flow is at mobile_otp.
C16_Witness ==
    /\ last.op = "email" /\ flows[last.id].step = "email_otp"
    /\ flows[last.id].email = <<"b@x">>
    /\ \E g \in FlowIds : flows[g].step = "mobile_otp"

\* C17: a setup run whose listing call raises requests no discovery flow,
\* leaves the registry as it was and forwards no platform; the registry
\* changes, and platforms are forwarded, only in a setup run whose listing
\* call returned.
C17_FailedSetupHasNoEffect ==
    [][/\ (last'.op = "async_setup_entry" /\ last'.calls[1].raised # "ok") =>
            /\ hassData' = hassData
            /\ last'.inits = <<>> /\ last'.forwarded = <<>>
            /\ last'.result.type = "raise"
            /\ entries' = entries /\ flows' = flows
       /\ (hassData' # hassData \/ last'.forwarded # <<>> \/ last'.inits # <<>>) =>
            /\ last'.op = "async_setup_entry"
            /\ last'.calls[1].raised = "ok"
            /\ last'.result.type = "return"
      ]_vars

\* A setup run has just failed for an entry that has a registry record from
\* an earlier successful run.
C17_Witness ==
    /\ last.op = "async_setup_entry" /\ last.calls[1].raised # "ok"
    /\ last.id \in DOMAIN hassData
    /\ hassData[last.id].devices # <<>>

\* C18: an entry created through the mobile branch has region "CN" and an
\* auth payload issued by DysonAccountCN; one created through the email
\* branch has another region and a payload issued by DysonAccount.  So the
\* client async_setup_entry builds for an entry is of the class that issued
\* the entry's auth payload.
C18_RegionMatchesBranch ==
    \A i \in 1..Len(entries) :
        LET e == entries[i]
            f == e.flow
        IN  /\ (flows[f].mobile # NoSeq) <=> (flows[f].email = NoSeq)
            /\ flows[f].mobile # NoSeq =>
                  /\ e.data.region = "CN"
                  /\ e.data.auth.issuer = "DysonAccountCN"
            /\ flows[f].email # NoSeq =>
                  /\ e.data.region # "CN"
                  /\ e.data.auth.issuer = "DysonAccount"
            /\ AccountFor(e).cls = e.data.auth.issuer
            /\ i \in DOMAIN hassData => hassData[i].account.cls = e.data.auth.issuer

\* A mobile entry and an email entry have both been set up.
C18_Witness ==
    /\ Len(entries) = 2
    /\ entries[1].data.region = "CN" /\ entries[2].data.region # "CN"
    /\ DOMAIN hassData = {1, 2}

\* The identifier fields and the callable of a session.
Credentials(s) == <<s.email, s.mobile, s.verify>>

\* C19: when the login call of the email step raises DysonNetworkError or
\* DysonInvalidAccountStatus, or the one of the mobile step raises
\* DysonOTPTooFrequently, the session's email, mobile and callable are as
\* before the submission; they change only in an identifier step whose
\* login call returned.
C19_FailedLoginKeepsSession ==
    [][\A f \in FlowIds :
          /\ (/\ last'.id = f /\ last'.op \in {"email", "mobile"}
              /\ last'.calls # <<>>
              /\ last'.calls[1].raised \in MappedExceptions(last'.op)) =>
                 /\ Credentials(flows'[f]) = Credentials(flows[f])
                 /\ last'.result.type = "form" /\ last'.result.step_id = last'.op
          /\ Credentials(flows'[f]) # Credentials(flows[f]) =>
                 /\ last'.id = f /\ last'.op \in {"email", "mobile"}
                 /\ last'.calls[1].raised = "ok"
                 /\ flows'[f].verify = last'.calls[1].value
      ]_vars

\* A login call of the email step has just raised a mapped exception, after
\* which the session still has no email and no callable.
C19_Witness ==
    /\ last.op = "email" /\ last.calls # <<>>
    /\ last.calls[1].raised = "DysonInvalidAccountStatus"
    /\ flows[last.id].email = NoSeq /\ flows[last.id].verify = NoVerify
    /\ flows[last.id].unique_id # NoSeq

\* The mobile inputs the normalisation is tried on: the strings over "+"
\* and a digit up to MaxMobileLen, and the inputs of the flows.
MobileStrings == SeqsUpTo({"+", "1"}, MaxMobileLen) \cup MobileInputs

StartsWithPlus(m) == Len(m) > 0 /\ m[1] = "+"

\* C20: the number passed to login_mobile_otp, the one stored in the session
\* and the one in the title of a CN entry start with "+": an input that
\* starts with "+" is used as it is, any other is prefixed with "+86"; and
\* normalising a normalised number changes nothing.
C20_MobileNormalized ==
    /\ \A m \in MobileStrings :
          /\ StartsWithPlus(NormalizeMobile(m))
          /\ StartsWithPlus(m) => NormalizeMobile(m) = m
          /\ ~StartsWithPlus(m) => NormalizeMobile(m) = <<"+", "8", "6">> \o m
          /\ NormalizeMobile(NormalizeMobile(m)) = NormalizeMobile(m)
    /\ (last.op = "mobile" /\ last.calls # <<>>) =>
          LET m   == last.input.mobile
              arg == last.calls[1].args.mobile
          IN  /\ StartsWithPlus(arg)
              /\ StartsWithPlus(m) => arg = m
              /\ ~StartsWithPlus(m) => arg = <<"+", "8", "6">> \o m
              /\ last.calls[1].raised = "ok" => flows[last.id].mobile = arg
    /\ \A f \in FlowIds : flows[f].mobile # NoSeq => StartsWithPlus(flows[f].mobile)
    /\ \A i \in 1..Len(entries) :
          entries[i].data.region = "CN" =>
              /\ StartsWithPlus(entries[i].title[1])
              /\ entries[i].title[1] = flows[entries[i].flow].mobile

\* A CN entry titled +861 exists and a login call has just been made for
\* an input that starts with "+".
C20_Witness ==
    /\ last.op = "mobile" /\ last.calls # <<>>
    /\ last.input.mobile = <<"+", "8", "6", "1">>
    /\ \E i \in 1..Len(entries) :
          /\ entries[i].data.region = "CN"
          /\ entries[i].title[1] = <<"+", "8", "6", "1">>

====
